---- MODULE Spec2Model ----
(***************************************************************************)
(* Model of the sync transport of the happy app: the endpoint resolver    *)
(* (serverResolver: probeUrl, raceProbes, resolveNow, getResolvedServerUrl,*)
(* resetResolver, notifyConnectionFailed) and the transport session       *)
(* (ApiSocket).                                                            *)
(***************************************************************************)
EXTENDS Integers, FiniteSets, Sequences, TLC

\* ---------------------------------------------------------------- bounds
MaxCalls == 2          \* resolveNow() invocations per behaviour
MaxTicks == 2          \* clock advances per behaviour
MaxSockets == 2        \* connection objects created per behaviour
MaxAcks == 1           \* emitWithAck() invocations per behaviour
MaxWire == 1           \* packets recorded on the wire
MaxListeners == 1      \* distinct listener functions the application registers
MaxHandlers == 2       \* distinct message handler functions the application registers
MaxRpcs == 2           \* sessionRPC() / machineRPC() invocations per behaviour

\* ------------------------------------------------------- program constants
FAILURE_DEBOUNCE_MS == 10000

null == "null"

\* Settings the user can store (serverConfig): the primary URL is always
\* present, the LAN URL is optional and may repeat the primary one.
DefaultUrl == "https://api"
PrimaryUrls == {"https://api", "http://lan"}
LanUrls == {null, "http://lan"}
Urls == PrimaryUrls \cup (LanUrls \ {null})

\* What a server can answer to the probe's GET.
Responses == {
    [kind |-> "http", status |-> 200, marker |-> TRUE],
    [kind |-> "http", status |-> 404, marker |-> TRUE],
    [kind |-> "timeout", status |-> 0, marker |-> FALSE] }

\* The answers told apart when the probe itself is examined: other statuses,
\* a body without the marker, a failed fetch, and headers of a 2xx answer
\* followed by a body that never completes ("stall").
ProbeResponses ==
    [kind : {"http"}, status : {200, 204, 404}, marker : BOOLEAN]
    \cup { [kind |-> "timeout", status |-> 0, marker |-> FALSE],
           [kind |-> "error", status |-> 0, marker |-> FALSE],
           [kind |-> "stall", status |-> 200, marker |-> FALSE] }

\* Clock step and the reading of Date.now() at start-up.
TickMs == 5000
StartTime == 20000

CallIds == 1..MaxCalls
AckIds == 1..MaxAcks
ListenerIds == 1..MaxListeners
HandlerIds == 1..MaxHandlers
RpcIds == 1..MaxRpcs

\* Names of the events the server pushes and the application subscribes to.
EventNames == {"update", "ephemeral"}

\* Bearer tokens and endpoints a SyncSocketConfig can hold.
Tokens == {"token-1", "token-2"}
Endpoints == {"https://api"}
Configs == [endpoint : Endpoints, token : Tokens]
NoConfig == [endpoint |-> null, token |-> null]      \* config: null

\* Peers an RPC can address, by kind and id, and the ones the Encryption
\* registry holds a cipher for.  A cipher is identified by the peer it is
\* bound to.
Targets == { [kind |-> "session", id |-> "S1"], [kind |-> "session", id |-> "S2"],
             [kind |-> "machine", id |-> "M1"], [kind |-> "session", id |-> "S0"] }
Established == Targets \ { [kind |-> "session", id |-> "S0"] }
NoTarget == [kind |-> null, id |-> null]
Method == "m"
Params == "p"
Answer == "r"

\* Errors callers of the transport see.
ErrNotInitialized == "Socket not initialized"
ErrTimeout == "Socket connection timeout"
ErrTypeError == "TypeError"
ErrNoSessionEncryption == "Session encryption not found"
ErrNoMachineEncryption == "Machine encryption not found"
ErrRpcFailed == "RPC call failed"
ErrDisconnected == "socket has been disconnected"

VARIABLES
    \* ---- serverConfig
    primaryUrl, lanUrl,
    \* ---- serverResolver module state
    activeUrl,                  \* let activeUrl
    stored,                     \* resolverStorage[ACTIVE_URL_KEY]
    lastFailureNotification,    \* let lastFailureNotification
    now,                        \* Date.now()
    lockHolder,                 \* resolveLock: the call inside inLock, 0 = free
    nextCall,                   \* next resolveNow() invocation id
    pc,                         \* per resolveNow() invocation: position
    cands,                      \* per invocation: candidate list it read
    settled, pending,           \* per invocation: raceProbes closure state
    probes,                     \* outstanding probeUrl() fetches
    \* ---- observation of the resolver
    resps,                      \* per invocation: the answer each candidate gives
    joined,                     \* per invocation: issued while a pass was in flight
    lastOp,                     \* the last API call, what it returned, and a flag:
                                \* the call started a resolve(); for a finished
                                \* pass, a probe had failed before the decision
    sinceReset,                 \* reset() happened, no getActive()/new pass since
    lastAccepted,               \* clock reading of the last notify that started resolve()
    \* ---- ApiSocket
    api,                        \* the fields of the ApiSocket singleton and of its Socket
    wire,                       \* packets handed to the connection, in order
    nextAck,                    \* next emitWithAck() invocation id
    apc,                        \* per emitWithAck() invocation: position
    aSock,                      \* per invocation: the Socket its waiter listens on
    aErr,                       \* per invocation: the error it rejected with
    \* ---- observation of the transport
    aStatus0,                   \* per invocation: Connection State when it was issued
    sockOp,                     \* the last ApiSocket call and what it returned
    notified,                   \* the listener invocations the last step made, in order
    registered,                 \* per event name: the handlers passed to onMessage()
                                \* since the last removal, the latest two in order
    \* ---- sessionRPC / machineRPC
    rpc                         \* the invocations made so far, in order: position
                                \* and local variables of each

rvars == <<primaryUrl, lanUrl, activeUrl, stored, lastFailureNotification, now,
           lockHolder, nextCall, pc, cands, settled, pending, probes,
           resps, joined, lastOp, sinceReset, lastAccepted>>

svars == <<api, wire, nextAck, apc, aSock, aErr, aStatus0, sockOp, notified,
           registered, rpc>>

vars == <<rvars, svars>>

\* ------------------------------------------------------------ helpers
Range(s) == {s[i] : i \in 1..Len(s)}

NoOp == [op |-> "none", ret |-> null, flag |-> FALSE]

\* (variant: any 2xx answer is taken, whatever its body)
ProbeUrlAnyBody(url, resp) ==
    IF resp.kind # "http" THEN null
    ELSE IF ~(resp.status >= 200 /\ resp.status <= 299) THEN null
    ELSE url

\* ------------------------------------------------------------ probeUrl
\* The value probeUrl(url) resolves with when the server answers resp.
ProbeUrl(url, resp) ==
    IF resp.kind # "http" THEN null                     \* catch { return null }
    ELSE IF ~(resp.status >= 200 /\ resp.status <= 299) THEN null  \* !response.ok
    ELSE IF ~resp.marker THEN null
    ELSE url

\* Does probeUrl(url) settle at all when the server answers resp?  The abort
\* timer is cleared once the headers are in, before `await response.text()`.
Settles(resp) == resp.kind # "stall"

\* ------------------------------------------------------------ resolveNow
\* Build de-duplicated candidate list.
Candidates(p, l) == IF l # null /\ l # p THEN <<p, l>> ELSE <<p>>

\* resolveLock (AsyncLock): a mutual-exclusion lock, one holder at a time.
LockFree == lockHolder = 0

\* A pass is in flight from the moment it reads the candidates until it has
\* written (or declined to write) the Active URL.
InFlight(c) == pc[c] = "racing"

\* resolveNow(): the call is made; it queues on resolveLock.inLock.
StartCall(c) ==
    /\ pc' = [pc EXCEPT ![c] = "waiting"]
    /\ joined' = [joined EXCEPT ![c] = \E d \in CallIds : InFlight(d)]
    /\ nextCall' = nextCall + 1

\* (variant: resolveNow runs its body without taking the lock)
CanEnterPassUnlocked(c) == pc[c] = "waiting"

\* The call may enter the critical section of resolveNow.
CanEnterPass(c) == pc[c] = "waiting" /\ LockFree

\* The body of inLock up to the first await: read the settings, build the
\* candidates, start one probe per candidate (raceProbes).
EnterPassWith(c, answers) ==
    /\ CanEnterPass(c)
    /\ LET cs == Candidates(primaryUrl, lanUrl) IN
       \E rs \in [Range(cs) -> answers] :
          /\ lockHolder' = c
          /\ pc' = [pc EXCEPT ![c] = "racing"]
          /\ cands' = [cands EXCEPT ![c] = cs]
          /\ settled' = [settled EXCEPT ![c] = FALSE]
          /\ pending' = [pending EXCEPT ![c] = Len(cs)]
          /\ resps' = [resps EXCEPT ![c] = rs]
          /\ probes' = probes \cup {[call |-> c, url |-> u] : u \in Range(cs)}
    /\ sinceReset' = FALSE
    /\ lastOp' = NoOp
    /\ UNCHANGED svars
    /\ UNCHANGED <<primaryUrl, lanUrl, activeUrl, stored, lastFailureNotification,
                   now, nextCall, joined, lastAccepted>>

EnterPass(c) == EnterPassWith(c, Responses)

\* ------------------------------------------------------------ raceProbes
\* (variant: the first probe to return decides the race, whatever it returned)
RaceThenFirstToReturn(s, pnd, result) ==
    IF s THEN [settled |-> s, pending |-> pnd, resolved |-> FALSE, value |-> null]
    ELSE [settled |-> TRUE, pending |-> pnd - 1, resolved |-> TRUE, value |-> result]

\* (variant: the race waits for all probes and resolves with the last success)
RaceThenLastSuccess(s, pnd, result) ==
    IF s THEN [settled |-> s, pending |-> pnd, resolved |-> FALSE, value |-> null]
    ELSE IF pnd - 1 = 0
         THEN [settled |-> TRUE, pending |-> pnd - 1, resolved |-> TRUE, value |-> result]
         ELSE [settled |-> FALSE, pending |-> pnd - 1, resolved |-> FALSE, value |-> null]

\* The .then callback raceProbes attaches to each probe, for a race whose
\* closure holds (s, pnd): the closure after the callback, whether the race
\* promise was resolved by it, and with what.
RaceThen(s, pnd, result) ==
    IF s THEN [settled |-> s, pending |-> pnd, resolved |-> FALSE, value |-> null]
    ELSE IF result # null
         THEN [settled |-> TRUE, pending |-> pnd, resolved |-> TRUE, value |-> result]
    ELSE IF pnd - 1 = 0
         THEN [settled |-> TRUE, pending |-> pnd - 1, resolved |-> TRUE, value |-> null]
         ELSE [settled |-> FALSE, pending |-> pnd - 1, resolved |-> FALSE, value |-> null]

\* (variant: the outcome of the race is stored even when it is null)
WriteWinnerAlways(w, old) == w

\* if (winner) { activeUrl = winner; resolverStorage.set(ACTIVE_URL_KEY, winner) }
WriteWinner(w, old) == IF w # null THEN w ELSE old

\* The continuation of resolveNow after `await raceProbes` resolved with w,
\* and the release of the lock when the inLock callback returns.
PassFinish(c, w) ==
    /\ activeUrl' = WriteWinner(w, activeUrl)
    /\ stored' = WriteWinner(w, stored)
    /\ lockHolder' = IF lockHolder = c THEN 0 ELSE lockHolder
    /\ pc' = [pc EXCEPT ![c] = "done"]
    /\ cands' = [cands EXCEPT ![c] = <<>>]
    /\ resps' = [resps EXCEPT ![c] = <<>>]
    /\ settled' = [settled EXCEPT ![c] = FALSE]
    /\ pending' = [pending EXCEPT ![c] = 0]
    /\ joined' = [joined EXCEPT ![c] = FALSE]
    /\ lastOp' = [op |-> "pass", ret |-> w, flag |-> pending[c] < Len(cands[c]),
                  oks |-> Cardinality({u \in Range(cands[c]) :
                                         ProbeUrl(u, resps[c][u]) # null}),
                  status |-> IF w # null THEN resps[c][w].status ELSE 0]

\* One outstanding fetch completes and the promise chain hanging on it runs:
\* the race callback and, when it resolves the race, the rest of resolveNow.
ProbeSettle(p) ==
    /\ p \in probes
    /\ pc[p.call] = "racing" => Settles(resps[p.call][p.url])
    /\ probes' = probes \ {p}
    /\ LET c == p.call IN
       IF pc[c] # "racing"
       THEN \* the race is over: if (settled) return
            /\ lastOp' = NoOp
            /\ UNCHANGED <<activeUrl, stored, lockHolder, pc, cands, resps, settled,
                           pending, joined>>
       ELSE LET result == ProbeUrl(p.url, resps[c][p.url])
                r == IF Len(cands[c]) = 1
                     THEN \* return probeUrl(candidates[0])
                          [settled |-> settled[c], pending |-> pending[c],
                           resolved |-> TRUE, value |-> result]
                     ELSE RaceThen(settled[c], pending[c], result)
            IN IF r.resolved
               THEN PassFinish(c, r.value)
               ELSE /\ settled' = [settled EXCEPT ![c] = r.settled]
                    /\ pending' = [pending EXCEPT ![c] = r.pending]
                    /\ lastOp' = NoOp
                    /\ UNCHANGED <<activeUrl, stored, lockHolder, pc, cands, resps,
                                   joined>>
    /\ UNCHANGED svars
    /\ UNCHANGED <<primaryUrl, lanUrl, lastFailureNotification, now, nextCall,
                   sinceReset, lastAccepted>>

\* resolveNow() called directly by a client of the module.
resolveNow ==
    /\ nextCall <= MaxCalls
    /\ StartCall(nextCall)
    /\ lastOp' = NoOp
    /\ UNCHANGED svars
    /\ UNCHANGED <<primaryUrl, lanUrl, activeUrl, stored, lastFailureNotification,
                   now, lockHolder, cands, settled, pending, probes,
                   resps, sinceReset, lastAccepted>>

\* ------------------------------------------------- getResolvedServerUrl
\* (variant: the cached value is returned as it is, without the fallback)
GetActiveReturnCached(a, primary) == a

GetActiveReturn(a, primary) == IF a # null THEN a ELSE primary

\* (variant: every call starts a pass, cached value or not)
getResolvedServerUrlAlwaysResolves ==
    /\ nextCall <= MaxCalls
    /\ activeUrl' = GetActiveReturn(activeUrl, primaryUrl)
    /\ StartCall(nextCall)
    /\ lastOp' = [op |-> "getActive", ret |-> GetActiveReturn(activeUrl, primaryUrl),
                  flag |-> activeUrl = null]
    /\ sinceReset' = FALSE
    /\ UNCHANGED svars
    /\ UNCHANGED <<primaryUrl, lanUrl, stored, lastFailureNotification, now,
                   lockHolder, cands, settled, pending, probes, resps,
                   lastAccepted>>

getResolvedServerUrl ==
    /\ IF activeUrl # null
       THEN /\ lastOp' = [op |-> "getActive", ret |-> GetActiveReturn(activeUrl, primaryUrl),
                          flag |-> FALSE]
            /\ UNCHANGED <<activeUrl, nextCall, pc, joined>>
       ELSE /\ nextCall <= MaxCalls
            /\ activeUrl' = primaryUrl
            /\ StartCall(nextCall)
            /\ lastOp' = [op |-> "getActive", ret |-> GetActiveReturn(activeUrl, primaryUrl),
                          flag |-> TRUE]
    /\ sinceReset' = FALSE
    /\ UNCHANGED svars
    /\ UNCHANGED <<primaryUrl, lanUrl, stored, lastFailureNotification, now,
                   lockHolder, cands, settled, pending, probes, resps,
                   lastAccepted>>

\* ------------------------------------------------------- resetResolver
\* (variant: only the value in memory is cleared)
resetResolverMemoryOnly ==
    /\ activeUrl' = null
    /\ stored' = stored
    /\ sinceReset' = TRUE

resetResolver ==
    /\ activeUrl' = null
    /\ stored' = null
    /\ sinceReset' = TRUE

\* ServerConfigScreen.handleSave once confirmed: store the settings, reset.
handleSave(p, l) ==
    /\ primaryUrl' = p
    /\ lanUrl' = l
    /\ resetResolver
    /\ lastOp' = NoOp
    /\ UNCHANGED svars
    /\ UNCHANGED <<lastFailureNotification, now, lockHolder, nextCall, pc, cands,
                   settled, pending, probes, resps, joined, lastAccepted>>

\* ServerConfigScreen.handleReset once confirmed: back to the default server.
handleReset == handleSave(DefaultUrl, null)

\* ----------------------------------------------- notifyConnectionFailed
\* (variant: a timer reset, every call moves the window)
DebounceTimerReset(t, last) ==
    IF t - last < FAILURE_DEBOUNCE_MS
    THEN [accept |-> FALSE, last |-> t]
    ELSE [accept |-> TRUE, last |-> t]

\* The debounce guard: is the call accepted, and the timestamp it leaves.
Debounce(t, last) ==
    IF t - last < FAILURE_DEBOUNCE_MS
    THEN [accept |-> FALSE, last |-> last]
    ELSE [accept |-> TRUE, last |-> t]

notifyConnectionFailed ==
    LET d == Debounce(now, lastFailureNotification) IN
    /\ lastFailureNotification' = d.last
    /\ IF d.accept
       THEN /\ nextCall <= MaxCalls
            /\ StartCall(nextCall)
            /\ lastAccepted' = now
       ELSE UNCHANGED <<nextCall, pc, joined, lastAccepted>>
    /\ lastOp' = [op |-> "notify", ret |-> null, flag |-> d.accept]
    /\ UNCHANGED svars
    /\ UNCHANGED <<primaryUrl, lanUrl, activeUrl, stored, now, lockHolder, cands,
                   settled, pending, probes, resps, sinceReset>>

\* Time passes.
Tick ==
    /\ now < StartTime + MaxTicks * TickMs
    /\ now' = now + TickMs
    /\ lastOp' = NoOp
    /\ UNCHANGED svars
    /\ UNCHANGED <<primaryUrl, lanUrl, activeUrl, stored, lastFailureNotification,
                   lockHolder, nextCall, pc, cands, settled, pending,
                   probes, resps, joined, sinceReset, lastAccepted>>

\* ---------------------------------------------------------------- Init
\* Module load: activeUrl is read back from the persisted record.
ResolverInit ==
    /\ primaryUrl = DefaultUrl
    /\ lanUrl = null
    /\ stored \in {null, DefaultUrl}
    /\ activeUrl = stored
    /\ lastFailureNotification = 0
    /\ now = StartTime
    /\ lockHolder = 0
    /\ nextCall = 1
    /\ pc = [c \in CallIds |-> "unused"]
    /\ cands = [c \in CallIds |-> <<>>]
    /\ settled = [c \in CallIds |-> FALSE]
    /\ pending = [c \in CallIds |-> 0]
    /\ probes = {}
    /\ resps = [c \in CallIds |-> <<>>]
    /\ joined = [c \in CallIds |-> FALSE]
    /\ lastOp = NoOp
    /\ sinceReset = FALSE
    /\ lastAccepted = -1

ResolverNext ==
    \/ resolveNow
    \/ \E c \in CallIds : EnterPass(c)
    \/ \E p \in probes : ProbeSettle(p)
    \/ getResolvedServerUrl
    \/ \E p \in PrimaryUrls, l \in LanUrls : handleSave(p, l)
    \/ handleReset
    \/ notifyConnectionFailed
    \/ Tick

\* The resolver with every kind of answer to a probe.
ProbeNext ==
    \/ resolveNow
    \/ \E c \in CallIds : EnterPassWith(c, ProbeResponses)
    \/ \E p \in probes : ProbeSettle(p)
    \/ \E p \in PrimaryUrls, l \in LanUrls : handleSave(p, l)

\* The cache of the resolver: readers of the Active URL, the passes they
\* start, and changes of the server settings.
CacheNext ==
    \/ getResolvedServerUrl
    \/ \E c \in CallIds : EnterPass(c)
    \/ \E p \in probes : ProbeSettle(p)
    \/ \E p \in PrimaryUrls, l \in LanUrls : handleSave(p, l)
    \/ handleReset

\* ================================================================ ApiSocket
\* api.socket is 0 for null, otherwise the identity of the Socket object;
\* connected / active / auth are the fields of that Socket (socket.connected,
\* socket.active, the endpoint and auth it was created with).
NoSockOp == [op |-> "none", ret |-> FALSE]

\* One invocation of listeners: the status listeners at a status change
\* ("status"), the listener being registered ("current"), the reconnected
\* listeners ("reconnected").  s.notified collects the invocations made
\* during the call or event being executed.
Invoke(kind, to, what) == [kind |-> kind, to |-> to, what |-> what]

\* (variant: the listeners are told the status whether it changed or not)
updateStatusAlways(s, status) ==
    [s EXCEPT !.currentStatus = status,
              !.notified = Append(@, Invoke("status", s.statusListeners, status))]

\* private updateStatus(status)
updateStatus(s, status) ==
    IF s.currentStatus # status
    THEN [s EXCEPT !.currentStatus = status,
                   !.notified = Append(@, Invoke("status", s.statusListeners, status))]
    ELSE s

\* connect()
connect(s) ==
    IF s.config = NoConfig \/ s.socket # 0 THEN s
    ELSE [updateStatus(s, "connecting") EXCEPT
             !.socket = s.nextSock,
             !.nextSock = s.nextSock + 1,
             !.connected = FALSE,
             !.active = TRUE,
             !.pid = FALSE,
             !.auth = s.config,
             !.networkSubscription = TRUE]     \* setupNetworkListener

\* (variant: the network listener stays subscribed)
disconnectKeepsListener(s) ==
    LET s2 == IF s.socket # 0
              THEN [(IF s.connected THEN updateStatus(s, "disconnected") ELSE s)
                       EXCEPT !.socket = 0, !.connected = FALSE, !.active = FALSE,
                              !.pid = FALSE, !.auth = NoConfig]
              ELSE s
    IN updateStatus(s2, "disconnected")

\* disconnect(): socket.disconnect() fires the 'disconnect' handler when the
\* socket was connected; either way the status ends as disconnected.
disconnect(s) ==
    LET s1 == [s EXCEPT !.networkSubscription = FALSE]     \* cleanupNetworkListener
        s2 == IF s1.socket # 0
              THEN [(IF s1.connected THEN updateStatus(s1, "disconnected") ELSE s1)
                       EXCEPT !.socket = 0, !.connected = FALSE, !.active = FALSE,
                              !.pid = FALSE, !.auth = NoConfig]
              ELSE s1
    IN updateStatus(s2, "disconnected")

\* (variant: a fresh connection object replaces whatever is there)
ensureConnectedRecreate(s) ==
    IF s.config # NoConfig THEN connect(disconnect(s)) ELSE s

\* ensureConnected()
ensureConnected(s) ==
    IF s.socket # 0 /\ ~s.connected THEN [s EXCEPT !.active = TRUE]   \* socket.connect()
    ELSE IF s.socket = 0 /\ s.config # NoConfig THEN connect(s)
    ELSE s

\* (variant: the new token is stored, the connection is left alone)
updateTokenNoReconnect(s, newToken) ==
    IF s.config # NoConfig /\ s.config.token # newToken
    THEN [s EXCEPT !.config.token = newToken]
    ELSE s

\* (variant: no comparison with the token in use)
updateTokenAlways(s, newToken) ==
    IF s.config # NoConfig
    THEN LET s1 == [s EXCEPT !.config.token = newToken] IN
         IF s1.socket # 0 THEN connect(disconnect(s1)) ELSE s1
    ELSE s

\* updateToken(newToken)
updateToken(s, newToken) ==
    IF s.config # NoConfig /\ s.config.token # newToken
    THEN LET s1 == [s EXCEPT !.config.token = newToken] IN
         IF s1.socket # 0 THEN connect(disconnect(s1)) ELSE s1
    ELSE s

\* updateToken(newToken) is called with the token the config already holds
SameToken(s, newToken) == s.config # NoConfig /\ s.config.token = newToken

\* send(): the guard `this.socket?.connected`
SendAllowed(s) == s.socket # 0 /\ s.connected

\* (variant: no check for a missing socket, the call waits for the timeout)
waitForConnectionNoNullCheck(s) ==
    IF s.socket # 0 /\ s.connected THEN "resolved" ELSE "wait"

\* private waitForConnection(): what the call does at once
waitForConnection(s) ==
    IF s.socket # 0 /\ s.connected THEN "resolved"
    ELSE IF s.socket = 0 THEN "rejected"
    ELSE "wait"

\* ---- actions: calls made by the application
ApiStep(s2, op) ==
    /\ api' = [s2 EXCEPT !.notified = <<>>]
    /\ notified' = s2.notified
    /\ sockOp' = op
    /\ UNCHANGED rvars
    /\ UNCHANGED <<wire, nextAck, apc, aSock, aErr, aStatus0, registered, rpc>>

Initialize(cfg) ==
    /\ api.nextSock <= MaxSockets
    /\ ApiStep(connect([api EXCEPT !.config = cfg, !.encryption = TRUE]),
               [op |-> "initialize", ret |-> FALSE])

Connect ==
    /\ api.nextSock <= MaxSockets
    /\ ApiStep(connect(api), [op |-> "connectCall", ret |-> FALSE])

Disconnect == ApiStep(disconnect(api), [op |-> "disconnect", ret |-> FALSE])

EnsureConnected ==
    /\ api.nextSock <= MaxSockets
    /\ ApiStep(ensureConnected(api), [op |-> "ensureConnected", ret |-> FALSE])

UpdateToken(t) ==
    /\ api.nextSock <= MaxSockets
    /\ ApiStep(updateToken(api, t),
               [op |-> "updateToken", ret |-> SameToken(api, t),
                was |-> api.currentStatus])

Send ==
    /\ IF ~SendAllowed(api)
       THEN /\ sockOp' = [op |-> "send", ret |-> FALSE]
            /\ UNCHANGED <<api, wire, nextAck, apc, aSock, aErr, aStatus0>>
       ELSE /\ Len(wire) < MaxWire
            /\ wire' = Append(wire, [kind |-> "event", sock |-> api.socket])
            /\ sockOp' = [op |-> "send", ret |-> TRUE]
            /\ UNCHANGED <<api, nextAck, apc, aSock, aErr, aStatus0>>
    /\ notified' = <<>>
    /\ UNCHANGED <<registered, rpc>>
    /\ UNCHANGED rvars

\* emitWithAck(): the call up to `await this.waitForConnection()`
EmitWithAck ==
    /\ nextAck <= MaxAcks
    /\ LET k == nextAck
           w == waitForConnection(api) IN
       /\ nextAck' = nextAck + 1
       /\ aStatus0' = [aStatus0 EXCEPT ![k] = api.currentStatus]
       /\ apc' = [apc EXCEPT ![k] = CASE w = "resolved" -> "ready"
                                      [] w = "rejected" -> "rejected"
                                      [] OTHER -> "waiting"]
       /\ aSock' = [aSock EXCEPT ![k] = IF w = "wait" THEN api.socket ELSE 0]
       /\ aErr' = [aErr EXCEPT ![k] = IF w = "rejected" THEN ErrNotInitialized ELSE null]
    /\ sockOp' = [op |-> "emitWithAck", ret |-> FALSE]
    /\ notified' = <<>>
    /\ UNCHANGED <<registered, rpc>>
    /\ UNCHANGED rvars
    /\ UNCHANGED <<api, wire>>

\* The timer of waitForConnection fires: this.socket?.off(...); reject(...)
WaitTimeout(k) ==
    /\ apc[k] = "waiting"
    /\ apc' = [apc EXCEPT ![k] = "rejected"]
    /\ aErr' = [aErr EXCEPT ![k] = ErrTimeout]
    /\ aSock' = [aSock EXCEPT ![k] = 0]       \* the promise is settled
    /\ sockOp' = NoSockOp
    /\ notified' = <<>>
    /\ UNCHANGED <<registered, rpc>>
    /\ UNCHANGED rvars
    /\ UNCHANGED <<api, wire, nextAck, aStatus0>>

\* emitWithAck() after the wait: `this.socket!.emitWithAck(event, data)`
AckEmit(k) ==
    /\ apc[k] = "ready"
    /\ IF api.socket = 0
       THEN /\ apc' = [apc EXCEPT ![k] = "rejected"]
            /\ aErr' = [aErr EXCEPT ![k] = ErrTypeError]
            /\ UNCHANGED wire
       ELSE /\ Len(wire) < MaxWire
            /\ wire' = Append(wire, [kind |-> "ack", sock |-> api.socket])
            /\ apc' = [apc EXCEPT ![k] = "sent"]
            /\ UNCHANGED aErr
    /\ sockOp' = NoSockOp
    /\ notified' = <<>>
    /\ UNCHANGED <<registered, rpc>>
    /\ UNCHANGED rvars
    /\ UNCHANGED <<api, nextAck, aSock, aStatus0>>

\* ---- actions: events of the Socket (setupEventHandlers) and of the network
\* (variant: the reconnected listeners run on every handshake, resumed or not)
onConnectAlwaysReconnected(s, recovered) ==
    LET s1 == updateStatus([s EXCEPT !.connected = TRUE, !.pid = TRUE], "connected") IN
    [s1 EXCEPT !.notified = Append(@, Invoke("reconnected", s1.reconnectedListeners, null))]

\* socket.on('connect', ...): recovered is socket.recovered, the handshake
\* resumed the previous session.
onConnect(s, recovered) ==
    LET s1 == updateStatus([s EXCEPT !.connected = TRUE, !.pid = TRUE], "connected") IN
    IF ~recovered
    THEN [s1 EXCEPT !.notified = Append(@, Invoke("reconnected", s1.reconnectedListeners, null))]
    ELSE s1

\* 'connect': the handler, then the once('connect') waiters of this socket.
\* Only a socket that held a session can resume it.
SockConnect(recovered) ==
    /\ api.socket # 0 /\ ~api.connected /\ api.active
    /\ recovered => api.pid
    /\ LET s2 == onConnect(api, recovered) IN
       /\ api' = [s2 EXCEPT !.notified = <<>>]
       /\ notified' = s2.notified
    /\ apc' = [k \in AckIds |->
                 IF apc[k] = "waiting" /\ aSock[k] = api.socket THEN "ready" ELSE apc[k]]
    /\ aSock' = [k \in AckIds |->      \* once(): the waiter that ran is gone
                   IF apc[k] = "waiting" /\ aSock[k] = api.socket THEN 0 ELSE aSock[k]]
    /\ rpc' = IF rpc = << >> THEN rpc
              ELSE [k \in 1..Len(rpc) |->
                      IF rpc[k].pc = "waiting" /\ rpc[k].sock = api.socket
                      THEN [rpc[k] EXCEPT !.pc = "ready", !.sock = 0] ELSE rpc[k]]
    /\ sockOp' = [op |-> "connect", ret |-> recovered]
    /\ UNCHANGED registered
    /\ UNCHANGED rvars
    /\ UNCHANGED <<wire, nextAck, aErr, aStatus0>>

\* 'disconnect': the transport closed (the socket keeps reconnecting) or the
\* server disconnected the client (it does not).
SockDisconnect(retry) ==
    /\ api.socket # 0 /\ api.connected
    /\ ApiStep(updateStatus([api EXCEPT !.connected = FALSE, !.active = retry],
                            "disconnected"),
               [op |-> "disconnectEvent", ret |-> retry])

\* 'connect_error': a connection attempt failed.
SockConnectError(retry) ==
    /\ api.socket # 0 /\ ~api.connected /\ api.active
    /\ ApiStep(updateStatus([api EXCEPT !.active = retry], "error"),
               [op |-> "connect_error", ret |-> retry])

\* 'error': an error event is delivered on the socket.
SockError ==
    /\ api.socket # 0 /\ (api.connected \/ api.active)
    /\ ApiStep(updateStatus(api, "error"), NoSockOp)

\* (variant: the listener redials whenever a connection object exists)
RedialsAlways(s) == s.socket # 0

\* (variant: the listener leaves an attempt that is in flight alone)
RedialsWhenIdle(s) == s.socket # 0 /\ ~s.connected /\ ~s.active

\* The network listener tears the socket down and dials again
\* (`this.socket && !this.socket.connected`).
Redials(s) == s.socket # 0 /\ ~s.connected

\* The network listener: connectivity regained.
\* Without a subscription no listener runs.
NetworkRegained ==
    LET redial == api.networkSubscription /\ Redials(api) IN
    ApiStep(IF redial
            THEN [api EXCEPT !.active = TRUE]     \* socket.disconnect(); socket.connect()
            ELSE api,
            [op |-> "networkRegained", ret |-> redial])

\* ---- sessionRPC / machineRPC
\* encryption.getSessionEncryption(id) / encryption.getMachineEncryption(id)
getEncryption(target) == IF target \in Established THEN target ELSE NoTarget

\* cipher.encryptRaw(data) / cipher.decryptRaw(payload): a payload opens only
\* under the cipher that sealed it.
NoPayload == [cipher |-> NoTarget, plain |-> null]
encryptRaw(cipher, data) == [cipher |-> cipher, plain |-> data]
decryptRaw(cipher, payload) == IF payload.cipher = cipher THEN payload.plain ELSE null

\* `${sessionId}:${method}` / `${machineId}:${method}`
MethodKey(target, method) == target.id \o ":" \o method

NoPacket == [method |-> null, params |-> NoPayload]
NoRpc == [pc |-> "new", target |-> NoTarget, cipher |-> NoTarget, sock |-> 0,
          packet |-> NoPacket, emitted |-> FALSE, err |-> null, result |-> null]

\* An invocation that settled keeps its outcome only (and, when it returned
\* a result, the peer it had addressed).
Resolved(r, value) ==
    [NoRpc EXCEPT !.pc = "resolved", !.target = r.target, !.emitted = r.emitted,
                  !.result = value]
Rejected(r, error) ==
    [NoRpc EXCEPT !.pc = "rejected", !.emitted = r.emitted, !.err = error]

\* The peer that serves a method key, and its acknowledgement: the result
\* sealed with that peer's cipher, or the failure flag.
Peer(key) == CHOOSE target \in Targets : MethodKey(target, Method) = key
Ack(packet, ok) ==
    IF ok THEN [ok |-> TRUE, result |-> encryptRaw(getEncryption(Peer(packet.method)), Answer)]
    ELSE [ok |-> FALSE, result |-> NoPayload]

\* (variant: the cipher is the one looked up by the latest invocation)
CallCipherShared(k) == rpc[Len(rpc)].cipher

\* const sessionEncryption / machineEncryption: local to the invocation
CallCipher(k) == rpc[k].cipher

\* (variant: the payload is decrypted and returned whatever the flag)
AckOutcomeIgnoreFlag(r, cipher, ack) == Resolved(r, decryptRaw(cipher, ack.result))

\* (variant: a request that came back with the failure flag is sent again)
AckOutcomeRetry(r, cipher, ack) ==
    IF ack.ok THEN Resolved(r, decryptRaw(cipher, ack.result))
    ELSE [r EXCEPT !.pc = "encrypting"]

\* if (result.ok) return decryptRaw(result.result); throw new Error('RPC call failed')
AckOutcome(r, cipher, ack) ==
    IF ack.ok THEN Resolved(r, decryptRaw(cipher, ack.result))
    ELSE Rejected(r, ErrRpcFailed)

\* Id of the next invocation.
nextRpc == Len(rpc) + 1

RpcStep(k, r, op) ==
    /\ rpc' = IF k = nextRpc THEN Append(rpc, r) ELSE [rpc EXCEPT ![k] = r]
    /\ sockOp' = op
    /\ notified' = << >>
    /\ UNCHANGED <<api, wire, nextAck, apc, aSock, aErr, aStatus0, registered>>
    /\ UNCHANGED rvars

\* sessionRPC() / machineRPC() up to `await this.waitForConnection()`
RpcCall(target) ==
    /\ nextRpc <= MaxRpcs
    /\ LET k == nextRpc
           cipher == getEncryption(target)
           w == waitForConnection(api)
           r == [NoRpc EXCEPT !.target = target, !.cipher = cipher] IN
       RpcStep(k,
               CASE ~api.encryption -> Rejected(r, ErrTypeError)
                 [] cipher = NoTarget ->
                      Rejected(r, IF target.kind = "session" THEN ErrNoSessionEncryption
                                  ELSE ErrNoMachineEncryption)
                 [] w = "rejected" -> Rejected(r, ErrNotInitialized)
                 [] w = "resolved" -> [r EXCEPT !.pc = "ready"]
                 [] OTHER -> [r EXCEPT !.pc = "waiting", !.sock = api.socket],
               [op |-> "rpc", ret |-> FALSE, target |-> target])

\* The timer of waitForConnection fires.
RpcWaitTimeout(k) ==
    /\ k \in DOMAIN rpc
    /\ rpc[k].pc = "waiting"
    /\ RpcStep(k, Rejected(rpc[k], ErrTimeout), NoSockOp)

\* After the wait: `this.socket!.emitWithAck` is read, then the params are
\* encrypted (`await ...encryptRaw(params)`).
RpcEncrypt(k) ==
    /\ k \in DOMAIN rpc
    /\ rpc[k].pc = "ready"
    /\ RpcStep(k, IF api.socket = 0 THEN Rejected(rpc[k], ErrTypeError)
                  ELSE [rpc[k] EXCEPT !.pc = "encrypting", !.sock = api.socket],
               NoSockOp)

\* socket.emitWithAck('rpc-call', {method, params}) on the socket read above
RpcEmit(k) ==
    /\ k \in DOMAIN rpc
    /\ rpc[k].pc = "encrypting"
    /\ RpcStep(k, [rpc[k] EXCEPT
                      !.pc = "sent", !.emitted = TRUE,
                      !.packet = [method |-> MethodKey(rpc[k].target, Method),
                                  params |-> encryptRaw(CallCipher(k), Params)]],
               NoSockOp)

\* The acknowledgement arrives over the connection the request went out on.
RpcAck(k, ok) ==
    /\ k \in DOMAIN rpc
    /\ rpc[k].pc = "sent"
    /\ api.socket = rpc[k].sock /\ api.connected
    /\ RpcStep(k, AckOutcome(rpc[k], CallCipher(k), Ack(rpc[k].packet, ok)),
               [op |-> "ack", ret |-> ok])

\* The connection of a request is gone; socket.io versions that clear the
\* pending acknowledgements on close reject the call, the others leave it
\* pending.
RpcAckCleared(k) ==
    /\ k \in DOMAIN rpc
    /\ rpc[k].pc = "sent"
    /\ ~(api.socket = rpc[k].sock /\ api.connected)
    /\ RpcStep(k, Rejected(rpc[k], ErrDisconnected), NoSockOp)

\* ---- listener registration
\* (variant: the listener is stored and first hears of the next change)
onStatusChangeDeferred(s, l) == [s EXCEPT !.statusListeners = @ \cup {l}]

\* onStatusChange(listener): add, then `listener(this.currentStatus)`
onStatusChange(s, l) ==
    [s EXCEPT !.statusListeners = @ \cup {l},
              !.notified = Append(@, Invoke("current", {l}, s.currentStatus))]

\* onReconnected(listener)
onReconnected(s, l) == [s EXCEPT !.reconnectedListeners = @ \cup {l}]

OnStatusChange(l) ==
    ApiStep(onStatusChange(api, l), [op |-> "onStatusChange", ret |-> FALSE])

\* the function onStatusChange() returned: statusListeners.delete(listener)
OffStatusChange(l) ==
    /\ l \in api.statusListeners
    /\ ApiStep([api EXCEPT !.statusListeners = @ \ {l}], NoSockOp)

OnReconnected(l) ==
    /\ l \notin api.reconnectedListeners
    /\ ApiStep(onReconnected(api, l), NoSockOp)

\* the function onReconnected() returned: reconnectedListeners.delete(listener)
OffReconnected(l) ==
    /\ l \in api.reconnectedListeners
    /\ ApiStep([api EXCEPT !.reconnectedListeners = @ \ {l}], NoSockOp)

\* ---- message handlers
\* (variant: a handler already registered for the event is kept)
onMessageKeepFirst(s, event, handler) ==
    IF s.messageHandlers[event] # 0 THEN s
    ELSE [s EXCEPT !.messageHandlers[event] = handler]

\* onMessage(event, handler): messageHandlers.set(event, handler)
onMessage(s, event, handler) == [s EXCEPT !.messageHandlers[event] = handler]

\* offMessage(event, handler): messageHandlers.delete(event)
offMessage(s, event) == [s EXCEPT !.messageHandlers[event] = 0]

\* (variant: the looked-up handler is called without the `if (handler)` test)
onAnyUnchecked(s, event) ==
    [s EXCEPT !.notified = Append(@, Invoke("message", {s.messageHandlers[event]}, event))]

\* socket.onAny((event, data) => ...): the handler of the event, if any
onAny(s, event) ==
    IF s.messageHandlers[event] # 0
    THEN [s EXCEPT !.notified = Append(@, Invoke("message", {s.messageHandlers[event]}, event))]
    ELSE s

LastTwo(q) == IF Len(q) <= 2 THEN q ELSE SubSeq(q, Len(q) - 1, Len(q))

OnMessage(event, handler) ==
    /\ api' = onMessage(api, event, handler)
    /\ registered' = [registered EXCEPT ![event] = LastTwo(Append(@, handler))]
    /\ notified' = << >>
    /\ sockOp' = [op |-> "onMessage", ret |-> FALSE]
    /\ UNCHANGED <<wire, nextAck, apc, aSock, aErr, aStatus0, rpc>>
    /\ UNCHANGED rvars

OffMessage(event) ==
    /\ api' = offMessage(api, event)
    /\ registered' = [registered EXCEPT ![event] = << >>]
    /\ notified' = << >>
    /\ sockOp' = [op |-> "offMessage", ret |-> FALSE]
    /\ UNCHANGED <<wire, nextAck, apc, aSock, aErr, aStatus0, rpc>>
    /\ UNCHANGED rvars

\* The function onMessage(event, handler) returned is called:
\* `() => this.messageHandlers.delete(event)`
Unsubscribe(event, handler) ==
    /\ handler \in Range(registered[event])
    /\ api' = offMessage(api, event)
    /\ registered' = [registered EXCEPT ![event] = << >>]
    /\ notified' = << >>
    /\ sockOp' = [op |-> "unsubscribe", ret |-> FALSE, event |-> event,
                  handler |-> handler]
    /\ UNCHANGED <<wire, nextAck, apc, aSock, aErr, aStatus0, rpc>>
    /\ UNCHANGED rvars

\* The server pushes an event over the live connection.
Inbound(event) ==
    /\ api.socket # 0 /\ api.connected
    /\ ApiStep(onAny(api, event), [op |-> "inbound", ret |-> FALSE, event |-> event])

SocketInit ==
    /\ api = [socket |-> 0, connected |-> FALSE, active |-> FALSE, auth |-> NoConfig,
              config |-> NoConfig, currentStatus |-> "disconnected",
              networkSubscription |-> FALSE, nextSock |-> 1,
              pid |-> FALSE, encryption |-> FALSE,
              statusListeners |-> {}, reconnectedListeners |-> {},
              messageHandlers |-> [e \in EventNames |-> 0],
              notified |-> <<>>]
    /\ wire = <<>>
    /\ nextAck = 1
    /\ apc = [k \in AckIds |-> "unused"]
    /\ aSock = [k \in AckIds |-> 0]
    /\ aErr = [k \in AckIds |-> null]
    /\ aStatus0 = [k \in AckIds |-> null]
    /\ sockOp = NoSockOp
    /\ notified = <<>>
    /\ registered = [e \in EventNames |-> << >>]
    /\ rpc = << >>

SocketNext ==
    \/ \E cfg \in Configs : Initialize(cfg)
    \/ Connect
    \/ Disconnect
    \/ EnsureConnected
    \/ \E t \in Tokens : UpdateToken(t)
    \/ Send
    \/ EmitWithAck
    \/ \E k \in AckIds : WaitTimeout(k)
    \/ \E k \in AckIds : AckEmit(k)
    \/ \E recovered \in BOOLEAN : SockConnect(recovered)
    \/ \E retry \in BOOLEAN : SockDisconnect(retry)
    \/ \E retry \in BOOLEAN : SockConnectError(retry)
    \/ SockError
    \/ NetworkRegained

\* The RPC calls over the connection life cycle (one configuration, no
\* session resumption: neither is read by a call).
RpcNext ==
    \/ Initialize([endpoint |-> "https://api", token |-> "token-1"])
    \/ Disconnect
    \/ SockConnect(FALSE)
    \/ \E retry \in BOOLEAN : SockDisconnect(retry)
    \/ \E target \in Targets : RpcCall(target)
    \/ \E k \in RpcIds : RpcWaitTimeout(k)
    \/ \E k \in RpcIds : RpcEncrypt(k)
    \/ \E k \in RpcIds : RpcEmit(k)
    \/ \E k \in RpcIds, ok \in BOOLEAN : RpcAck(k, ok)
    \/ \E k \in RpcIds : RpcAckCleared(k)

\* The message handlers and the events dispatched to them.
DispatchNext ==
    \/ \E cfg \in Configs : Initialize(cfg)
    \/ Disconnect
    \/ \E recovered \in BOOLEAN : SockConnect(recovered)
    \/ \E retry \in BOOLEAN : SockDisconnect(retry)
    \/ \E e \in EventNames, h \in HandlerIds : OnMessage(e, h)
    \/ \E e \in EventNames : OffMessage(e)
    \/ \E e \in EventNames, h \in HandlerIds : Unsubscribe(e, h)
    \/ \E e \in EventNames : Inbound(e)

\* The connection life cycle and the listeners that observe it.
ListenersNext ==
    \/ \E cfg \in Configs : Initialize(cfg)
    \/ Connect
    \/ Disconnect
    \/ EnsureConnected
    \/ \E t \in Tokens : UpdateToken(t)
    \/ \E recovered \in BOOLEAN : SockConnect(recovered)
    \/ \E retry \in BOOLEAN : SockDisconnect(retry)
    \/ \E retry \in BOOLEAN : SockConnectError(retry)
    \/ SockError
    \/ NetworkRegained
    \/ \E l \in ListenerIds : OnStatusChange(l)
    \/ \E l \in ListenerIds : OffStatusChange(l)
    \/ \E l \in ListenerIds : OnReconnected(l)
    \/ \E l \in ListenerIds : OffReconnected(l)

\* ============================================================ specifications
Init == ResolverInit /\ SocketInit

SpecResolver == Init /\ [][ResolverNext]_vars
SpecProbe == Init /\ [][ProbeNext]_vars
SpecCache == Init /\ [][CacheNext]_vars
\* The event loop runs the continuation of a fetch that has completed and
\* hands the lock to a queued call; a fetch that does not complete has no
\* continuation to run.
SpecProbeFair ==
    /\ SpecProbe
    /\ \A c \in CallIds : WF_vars(EnterPassWith(c, ProbeResponses))
    /\ \A c \in CallIds, u \in Urls : WF_vars(ProbeSettle([call |-> c, url |-> u]))
\* The transport does not read the resolver: its behaviours are explored from
\* the start-up state without a persisted Active URL.
SocketSpecInit == Init /\ stored = null
SpecSocket == SocketSpecInit /\ [][SocketNext]_vars
SpecListeners == SocketSpecInit /\ [][ListenersNext]_vars
SpecDispatch == SocketSpecInit /\ [][DispatchNext]_vars
SpecRpc == SocketSpecInit /\ [][RpcNext]_vars
\* What the event loop guarantees to run: expired timers and the
\* continuations of awaits that have completed.  Nothing obliges the peer to
\* acknowledge or the network to connect.
SpecRpcFair ==
    /\ SpecRpc
    /\ \A k \in RpcIds : /\ WF_vars(RpcWaitTimeout(k))
                         /\ WF_vars(RpcEncrypt(k))
                         /\ WF_vars(RpcEmit(k))

\* ======================================================= resolver claims
ProbeOk(c, u) == ProbeUrl(u, resps[c][u]) # null
OkSet(c) == {u \in Range(cands[c]) : ProbeOk(c, u)}
Finishing(c) == pc[c] = "racing" /\ pc'[c] = "done"

\* C1: at most one resolution pass is in flight at any time.
C1_OnePassInFlight == Cardinality({c \in CallIds : InFlight(c)}) <= 1

C1_Witness == \E c, d \in CallIds : InFlight(c) /\ pc[d] = "waiting" /\ probes # {}

\* C2: a resolve() call made while a pass is in flight never starts a probe
\* race of its own.
C2_Coalesce == \A c \in CallIds : joined[c] => ~InFlight(c)

\* C3: the probes outstanding at any time all belong to one pass.
C3_NoInterleavedProbes == \A p, q \in probes : p.call = q.call

\* C4: a pass in which exactly one candidate's probe succeeds ends with that
\* candidate as the winner and writes it to the Active URL, in memory and
\* persisted, whatever the order in which the probes return.
C4_SingleSuccessWins ==
    [][\A c \in CallIds :
          (Finishing(c) /\ Cardinality(OkSet(c)) = 1)
             => /\ lastOp'.op = "pass" /\ lastOp'.ret \in OkSet(c)
                /\ activeUrl' = lastOp'.ret /\ stored' = lastOp'.ret]_vars

\* A pass of two candidates finished after the failing probe returned first.
C4_Witness ==
    /\ lastOp.op = "pass" /\ lastOp.flag /\ lastOp.ret # null
    /\ activeUrl = lastOp.ret /\ stored = lastOp.ret

\* C5: getActive() is enabled in every state, the lock held or not, and
\* returns the cached Active URL, or the primary URL on a cold cache; never null.
C5_GetActiveNeverBlocks ==
    /\ [](nextCall <= MaxCalls => ENABLED getResolvedServerUrl)
    /\ [][lastOp'.op = "getActive" =>
            /\ lastOp'.ret # null
            /\ lastOp'.ret = (IF activeUrl # null THEN activeUrl ELSE primaryUrl)]_vars

\* getActive() answered on a cold cache while a pass held the lock.
C5_Witness ==
    /\ lastOp.op = "getActive" /\ lastOp.flag /\ lastOp.ret = primaryUrl
    /\ lockHolder # 0

\* C6: a notifyFailure() call starts a resolve() exactly when no call was
\* accepted before or the last accepted one is at least the window old; an
\* ignored call starts nothing.
C6_Debounce ==
    [][lastOp'.op = "notify" =>
            /\ lastOp'.flag <=>
                  (lastAccepted < 0 \/ now - lastAccepted >= FAILURE_DEBOUNCE_MS)
            /\ lastOp'.flag => nextCall' = nextCall + 1 /\ pc'[nextCall] = "waiting"
            /\ ~lastOp'.flag => nextCall' = nextCall /\ pc' = pc]_vars

\* A call was ignored inside the window of an earlier accepted call.
C6_Witness ==
    /\ lastOp.op = "notify" /\ ~lastOp.flag
    /\ lastAccepted >= 0 /\ now > lastAccepted

\* C7: from reset() until the next getActive() (or the start of a new pass)
\* there is no cached Active URL.
C7_ResetForcesFreshProbe == sinceReset => activeUrl = null

\* C8: a pass in which every probe fails leaves the Active URL unchanged,
\* in memory and persisted.
C8_AllFailKeepsActive ==
    [][\A c \in CallIds :
          (Finishing(c) /\ OkSet(c) = {}) => UNCHANGED <<activeUrl, stored>>]_vars

\* A pass found no reachable candidate and a cached URL is still there.
C8_Witness ==
    /\ lastOp.op = "pass" /\ lastOp.ret = null
    /\ activeUrl # null /\ stored # null

\* C23 as claimed: a probe succeeds exactly when the answer has status 200 and
\* the marker in its body, and the winner of a pass is a candidate whose
\* answer was of that kind.
C23_ProbeNeeds200AndMarker ==
    [][\A c \in CallIds :
          pc[c] = "racing" =>
             /\ \A u \in Range(cands[c]) :
                   ProbeOk(c, u) <=> (/\ resps[c][u].kind = "http"
                                      /\ resps[c][u].status = 200
                                      /\ resps[c][u].marker)
             /\ (Finishing(c) /\ lastOp'.ret # null)
                   => (/\ resps[c][lastOp'.ret].kind = "http"
                       /\ resps[c][lastOp'.ret].status = 200
                       /\ resps[c][lastOp'.ret].marker)]_vars

\* C23 as amended: a probe succeeds exactly when the answer has a status from
\* 200 to 299 and the marker in its body; the winner of a pass is a candidate
\* whose answer was of that kind.
C23_ProbeNeeds2xxAndMarker ==
    [][\A c \in CallIds :
          pc[c] = "racing" =>
             /\ \A u \in Range(cands[c]) :
                   ProbeOk(c, u) <=> (/\ resps[c][u].kind = "http"
                                      /\ resps[c][u].status \in 200..299
                                      /\ resps[c][u].marker)
             /\ (Finishing(c) /\ lastOp'.ret # null)
                   => (/\ resps[c][lastOp'.ret].kind = "http"
                       /\ resps[c][lastOp'.ret].status \in 200..299
                       /\ resps[c][lastOp'.ret].marker)]_vars

\* A pass was won by a candidate that answered 204 with the marker, after the
\* other candidate's probe had failed.
C23_Witness ==
    /\ lastOp.op = "pass" /\ lastOp.ret # null
    /\ lastOp.status = 204 /\ lastOp.flag
    /\ activeUrl = lastOp.ret

\* C24: whenever the Transport Session observes a broken connection (a
\* connection error or a close it did not ask for), that same handler run calls
\* the resolver's notifyConnectionFailed().
C24_FailureNotifiesResolver ==
    [][sockOp'.op \in {"connect_error", "disconnectEvent"} => lastOp'.op = "notify"]_vars

\* C25: the session never gives up on its own.  After every transport failure
\* (a failed attempt or a close the application did not ask for) the connection
\* object, which still exists, has a further attempt scheduled.
C25_FailureIsRetried ==
    [][sockOp'.op \in {"connect_error", "disconnectEvent"}
          => (api'.socket # 0 /\ api'.active)]_vars

\* C26: whatever the server does, every probe settles, so every resolveNow()
\* that has been called returns: a pass in flight finishes and a call queued
\* behind it gets the lock and finishes too.
C26_EveryPassTerminates ==
    \A c \in CallIds : (pc[c] \notin {"unused", "done"}) ~> (pc[c] = "done")

\* C27: in a pass where the probes of more than one candidate succeed, the
\* success that completes first ends the pass and is the value written to the
\* Active URL and to storage; a probe of that pass that completes afterwards,
\* the lock being free or held by a later pass, writes nothing.
C27_FirstSuccessWrittenOnce ==
    [][\A p \in probes :
          probes' = probes \ {p} =>
             /\ (/\ pc[p.call] = "racing"
                 /\ Cardinality(OkSet(p.call)) > 1
                 /\ ProbeOk(p.call, p.url))
                   => (/\ Finishing(p.call)
                       /\ activeUrl' = p.url /\ stored' = p.url)
             /\ pc[p.call] # "racing"
                   => (/\ activeUrl' = activeUrl /\ stored' = stored
                       /\ pc' = pc /\ lockHolder' = lockHolder)]_vars

\* A pass in which both candidates answer well has just ended with the first
\* of them written, and the probe of the other is still outstanding.
C27_Witness ==
    /\ lastOp.op = "pass" /\ lastOp.oks > 1
    /\ activeUrl = lastOp.ret /\ stored = lastOp.ret
    /\ \E p \in probes : pc[p.call] = "done" /\ p.url # activeUrl

\* C28 as claimed: the Active URL changes to a non-null value only in the step
\* that ends a pass in which the probe of that URL succeeded, and changes to
\* null only by resetResolver().
C28_OnlyPassSetsActive ==
    [][activeUrl' # activeUrl =>
          IF activeUrl' # null
          THEN \E c \in CallIds : /\ Finishing(c) /\ lastOp'.op = "pass"
                                   /\ lastOp'.ret = activeUrl'
                                   /\ ProbeOk(c, activeUrl')
          ELSE sinceReset' /\ stored' = null]_vars

\* C28 as amended: besides the step that ends a pass won by that URL, the
\* Active URL takes a new non-null value only in getResolvedServerUrl() on a
\* cold cache, which puts the primary URL in memory and leaves storage alone;
\* notifyConnectionFailed() never changes it and only resetResolver() clears it.
C28_PassOrColdGetSetsActive ==
    [][activeUrl' # activeUrl =>
          IF activeUrl' # null
          THEN \/ \E c \in CallIds : /\ Finishing(c) /\ lastOp'.op = "pass"
                                      /\ lastOp'.ret = activeUrl'
                                      /\ ProbeOk(c, activeUrl')
               \/ /\ lastOp'.op = "getActive" /\ lastOp'.flag
                  /\ activeUrl = null /\ activeUrl' = primaryUrl
                  /\ stored' = stored
          ELSE sinceReset' /\ stored' = null]_vars

\* getResolvedServerUrl() has just run on a cold cache that a failed
\* notification-started pass had left cold: the primary URL is the Active URL
\* in memory, unprobed and not stored.
C28_Witness ==
    /\ lastOp.op = "getActive" /\ lastOp.flag
    /\ activeUrl = primaryUrl /\ stored = null
    /\ lastAccepted # -1
    /\ \E c \in CallIds : pc[c] = "done"

\* C29: when the session becomes connected, every emitWithAck() call still
\* waiting for a connection (its timer has not fired) goes on to its request,
\* whichever connection object it is that came up.
C29_WaiterProceedsOnConnect ==
    [][sockOp'.op = "connect"
          => \A k \in AckIds : apc[k] = "waiting" => apc'[k] = "ready"]_vars

\* C30 as claimed: while a connection attempt is in flight, connect(),
\* ensureConnected() and the connectivity-regained signal are all no-ops:
\* the attempt is neither aborted nor restarted nor doubled, and no status
\* change is made or reported.
C30_TriggerDuringAttemptIsNoOp ==
    [][(/\ api.socket # 0 /\ ~api.connected /\ api.active
        /\ sockOp'.op \in {"connectCall", "ensureConnected", "networkRegained"})
          => (/\ api' = api /\ notified' = << >>
              /\ ~sockOp'.ret)]_vars

\* C30 as amended: while a connection attempt is in flight, connect() and
\* ensureConnected() are no-ops; the connectivity-regained signal tears the
\* attempt down and dials again on the same connection object, which creates
\* no second object and makes and reports no status change.
C30_OnlyNetworkSignalRestarts ==
    [][(/\ api.socket # 0 /\ ~api.connected /\ api.active
        /\ sockOp'.op \in {"connectCall", "ensureConnected", "networkRegained"})
          => (/\ api' = api /\ notified' = << >>
              /\ sockOp'.ret <=> sockOp'.op = "networkRegained")]_vars

\* The connectivity-regained signal has just restarted the first attempt of a
\* connection object: the state is still `connecting`.
C30_Witness ==
    /\ sockOp.op = "networkRegained" /\ sockOp.ret
    /\ api.socket # 0 /\ ~api.connected /\ api.active
    /\ api.currentStatus = "connecting"

\* ====================================================== transport claims
\* C9: send() returns false and puts nothing on the wire whenever the
\* Connection State is not connected.
C9_SendOnlyWhenConnected ==
    [][(sockOp'.op = "send" /\ api.currentStatus # "connected")
          => (sockOp'.ret = FALSE /\ wire' = wire)]_vars

\* C10 as claimed: every callWithAck issued in state disconnected that is
\* rejected without a connection having come up is rejected with the timeout
\* error.
C10_DisconnectedCallTimesOut ==
    \A k \in AckIds :
        (apc[k] = "rejected" /\ aStatus0[k] = "disconnected" /\ aErr[k] # ErrTypeError)
            => aErr[k] = ErrTimeout

\* C10 as amended: a callWithAck issued in state disconnected that is rejected
\* without a connection having come up is rejected with the timeout error when
\* a connection object existed at the call, and at once with the
\* not-initialized error when none existed; the rejection leaves the
\* transport, the Connection State included, as it was.
C10_DisconnectedCallRejects ==
    [][\A k \in AckIds :
          (apc'[k] = "rejected" /\ apc[k] \in {"unused", "waiting"}
             /\ aStatus0'[k] = "disconnected")
          => /\ api' = api
             /\ apc[k] = "waiting" => (aErr'[k] = ErrTimeout /\ aSock[k] # 0)
             /\ apc[k] = "unused" => (aErr'[k] = ErrNotInitialized /\ api.socket = 0)]_vars

\* A call issued on a disconnected, existing socket timed out and the state
\* is still disconnected.
C10_Witness ==
    \E k \in AckIds :
        /\ apc[k] = "rejected" /\ aErr[k] = ErrTimeout /\ aStatus0[k] = "disconnected"
        /\ api.socket # 0 /\ api.currentStatus = "disconnected"

\* C11: sessionRPC() / machineRPC() for a peer without a cipher rejects with
\* the missing-encryption error in every state, at once (no wait for a
\* connection) and with nothing emitted.
C11_NoCipherRejectsAtOnce ==
    [][(sockOp'.op = "rpc" /\ getEncryption(sockOp'.target) = NoTarget)
          => /\ LET k == Len(rpc) + 1 IN
                   /\ Len(rpc') = k /\ rpc'[k].pc = "rejected"
                   /\ rpc'[k].err \in {ErrNoSessionEncryption, ErrNoMachineEncryption}
                   /\ ~rpc'[k].emitted
             /\ wire' = wire /\ api' = api]_vars

C13_TokenChangeReconnects ==
    [][/\ (sockOp'.op = "updateToken" /\ ~sockOp'.ret /\ api.currentStatus = "connected")
          => /\ notified' = << Invoke("status", api.statusListeners, "disconnected"),
                               Invoke("status", api.statusListeners, "connecting") >>
             /\ api'.socket # 0 /\ api'.socket # api.socket /\ ~api'.connected
             /\ api'.config.token # api.config.token
             /\ api'.auth = api'.config
       /\ (sockOp'.op = "connect" /\ api.currentStatus = "connecting")
          => /\ notified' # << >>
             /\ notified'[1] = Invoke("status", api.statusListeners, "connected")
             /\ api'.auth = api.auth]_vars

\* A registered listener has heard disconnected, connecting after a token
\* change made while connected.
C13_Witness ==
    /\ sockOp.op = "updateToken" /\ ~sockOp.ret /\ sockOp.was = "connected"
    /\ Len(notified) = 2 /\ notified[1].to # {}
    /\ api.auth.token = "token-2"

\* C14: updateToken() with the token already in use changes nothing: the
\* connection object, the Connection State, the stored config and the network
\* subscription stay as they were and no listener is invoked.
C14_SameTokenNoOp ==
    [][(sockOp'.op = "updateToken" /\ sockOp'.ret) => (api' = api /\ notified' = << >>)]_vars

\* The call was made with the token in use on a live connection.
C14_Witness ==
    /\ sockOp.op = "updateToken" /\ sockOp.ret /\ sockOp.was = "connected"
    /\ api.socket # 0 /\ api.connected /\ api.statusListeners # {}

\* C15: a status listener is invoked inside the registration call itself, once,
\* with the Connection State current at that moment, whatever that state is.
C15_ListenerHearsCurrentState ==
    [][sockOp'.op = "onStatusChange"
          => \E l \in ListenerIds :
                /\ notified' = << Invoke("current", {l}, api.currentStatus) >>
                /\ api'.statusListeners = api.statusListeners \cup {l}
                /\ api'.currentStatus = api.currentStatus]_vars

\* A listener registered on a live connection heard connected at once.
C15_Witness ==
    /\ sockOp.op = "onStatusChange"
    /\ notified = << Invoke("current", api.statusListeners, "connected") >>
    /\ api.statusListeners # {}

\* C16: every change of the Connection State follows an edge of the state
\* machine: disconnected -> connecting, connecting -> connected,
\* connected -> disconnected, any -> error, error -> connecting; connected is
\* entered from connecting only.
C16_StatusFollowsMachine ==
    [][LET Edges == { <<"disconnected", "connecting">>, <<"connecting", "connected">>,
                      <<"connected", "disconnected">>, <<"error", "connecting">> }
                    \cup { <<st, "error">> : st \in {"disconnected", "connecting", "connected"} }
           changes == SelectSeq(notified', LAMBDA e : e.kind = "status")
           path == << api.currentStatus >> \o [i \in 1..Len(changes) |-> changes[i].what]
       IN \A i \in 1..(Len(path) - 1) : <<path[i], path[i + 1]>> \in Edges]_vars

\* C17: a handshake success that does not resume the previous session invokes
\* the status listeners with connected and then every registered reconnected
\* listener, once; a resuming handshake invokes no reconnected listener.
C17_ReconnectedAfterStatus ==
    [][sockOp'.op = "connect"
          => notified' =
                IF sockOp'.ret
                THEN << Invoke("status", api.statusListeners, "connected") >>
                ELSE << Invoke("status", api.statusListeners, "connected"),
                        Invoke("reconnected", api.reconnectedListeners, null) >>]_vars

\* A fresh handshake on a socket that had a session before: both kinds of
\* listener were registered and ran.
C17_Witness ==
    /\ sockOp.op = "connect" /\ ~sockOp.ret
    /\ Len(notified) = 2
    /\ notified[1].to # {} /\ notified[2].kind = "reconnected" /\ notified[2].to # {}

\* C18: an acknowledgement with the failure flag rejects the call with the
\* call-failure error and returns no payload; that error comes from such an
\* acknowledgement only, and the timeout error from a wait for the connection
\* that expired before anything was emitted, so the two tell apart.
C18_AckFailureIsDistinct ==
    [][/\ (sockOp'.op = "ack" /\ ~sockOp'.ret)
          => \E k \in DOMAIN rpc :
                /\ rpc[k].pc = "sent" /\ rpc'[k].pc = "rejected"
                /\ rpc'[k].err = ErrRpcFailed /\ rpc'[k].result = null
       /\ \A k \in DOMAIN rpc :
             /\ (rpc'[k].err = ErrRpcFailed /\ rpc[k].err # ErrRpcFailed)
                   => (sockOp'.op = "ack" /\ ~sockOp'.ret /\ rpc[k].pc = "sent")
             /\ (rpc'[k].err = ErrTimeout /\ rpc[k].err # ErrTimeout)
                   => (rpc[k].pc = "waiting" /\ ~rpc'[k].emitted)
       /\ ErrRpcFailed # ErrTimeout]_vars

\* A request went out and came back with the failure flag.
C18_Witness ==
    /\ sockOp.op = "ack" /\ ~sockOp.ret
    /\ \E k \in DOMAIN rpc :
          rpc[k].pc = "rejected" /\ rpc[k].err = ErrRpcFailed /\ rpc[k].emitted

\* C19: every call that was made settles in the end.
C19_EveryCallSettles ==
    \A k \in RpcIds :
        (k \in DOMAIN rpc) ~> (k \in DOMAIN rpc /\ rpc[k].pc \in {"resolved", "rejected"})

\* C20: an event name has one handler at most: after on(e, h1) and then
\* on(e, h2), an inbound event e invokes h2 once and h1 not at all.
C20_LatestHandlerOnly ==
    [][\A e \in EventNames :
          (sockOp'.op = "inbound" /\ sockOp'.event = e /\ registered[e] # << >>)
             => notified' = << Invoke("message", {registered[e][Len(registered[e])]}, e) >>]_vars

\* Handler 2 replaced handler 1 and received the event.
C20_Witness ==
    \E e \in EventNames :
        /\ sockOp.op = "inbound" /\ sockOp.event = e
        /\ registered[e] = <<1, 2>>
        /\ notified = << Invoke("message", {2}, e) >>

\* C21: an inbound event whose name has no handler is dropped: nothing is
\* invoked and no state changes; a handler registered later is not handed
\* anything by the registration.
C21_UnhandledEventDropped ==
    [][/\ \A e \in EventNames :
             (sockOp'.op = "inbound" /\ sockOp'.event = e /\ api.messageHandlers[e] = 0)
                => (notified' = << >> /\ api' = api /\ registered' = registered
                    /\ rpc' = rpc /\ wire' = wire)
       /\ sockOp'.op = "onMessage" => notified' = << >>]_vars

\* An event arrived on the live connection with no handler for its name.
C21_Witness ==
    /\ sockOp.op = "inbound" /\ notified = << >>
    /\ api.connected /\ api.messageHandlers[sockOp.event] = 0
    /\ \E e \in EventNames : api.messageHandlers[e] # 0

\* C22: ensureConnected() twice leaves the session as ensureConnected() once;
\* it never makes a second connection object while one exists, and changes
\* nothing on a connected session or without a configuration.
C22_EnsureConnectedIdempotent ==
    LET once == [ensureConnected(api) EXCEPT !.notified = << >>]
        twice == [ensureConnected(once) EXCEPT !.notified = << >>]
    IN /\ twice = once
       /\ ensureConnected(once).notified = << >>
       /\ api.socket # 0 => (once.socket = api.socket /\ once.nextSock = api.nextSock)
       /\ (api.socket # 0 /\ api.connected) => ensureConnected(api) = api
       /\ api.config = NoConfig => ensureConnected(api) = api

\* ensureConnected() has just prodded a connection object that had stopped
\* dialling.
C22_Witness ==
    /\ sockOp.op = "ensureConnected"
    /\ api.socket # 0 /\ ~api.connected /\ api.active
    /\ api.currentStatus \in {"disconnected", "error"}

\* C31: the connectivity-regained signal, arriving while a connection object
\* exists and is not connected, starts an attempt on that object at once
\* (whatever retry was or was not pending); arriving while the connection is
\* connected or while no connection object exists, it does nothing.
C31_NetworkSignalDialsAtOnce ==
    [][sockOp'.op = "networkRegained" =>
          IF api.socket # 0 /\ ~api.connected
          THEN /\ sockOp'.ret /\ api'.active
               /\ api' = [api EXCEPT !.active = TRUE]
               /\ notified' = << >>
          ELSE /\ ~sockOp'.ret
               /\ api' = api /\ notified' = << >>]_vars

\* The signal has just restarted a connection object whose last attempt had
\* failed.
C31_Witness ==
    /\ sockOp.op = "networkRegained" /\ sockOp.ret
    /\ api.socket # 0 /\ ~api.connected /\ api.active
    /\ api.currentStatus = "error"

\* C32: the status notifications of a step are exactly the changes of the
\* Connection State in that step, in order: each differs from the state before
\* it, the last one is the state the step ends in, and a step with none leaves
\* the state as it was.  Each goes once to every listener registered at that
\* moment and to nobody else, so a listener that was removed hears nothing.
C32_OneNotificationPerChange ==
    [][LET changes == SelectSeq(notified', LAMBDA e : e.kind = "status")
           path == << api.currentStatus >> \o [i \in 1..Len(changes) |-> changes[i].what]
       IN /\ \A i \in 1..(Len(path) - 1) : path[i] # path[i + 1]
          /\ path[Len(path)] = api'.currentStatus
          /\ \A i \in 1..Len(changes) : changes[i].to = api.statusListeners
          /\ \A i \in 1..Len(notified') :
                notified'[i].kind = "current"
                   => (/\ sockOp'.op = "onStatusChange"
                       /\ notified'[i].to \subseteq api'.statusListeners)]_vars

\* A token change on a connected session has just told a registered listener
\* `disconnected` and then `connecting`.
C32_Witness ==
    /\ sockOp.op = "updateToken" /\ sockOp.was = "connected"
    /\ Len(notified) = 2
    /\ notified[1].what = "disconnected" /\ notified[2].what = "connecting"
    /\ notified[1].to # {} /\ notified[1].to = api.statusListeners
    /\ api.currentStatus = "connecting"

\* C33: one invocation of sessionRPC() / machineRPC() hands at most one
\* `rpc-call` to the connection.  An invocation that has emitted never comes
\* back to a position from which it emits, whatever the acknowledgement; and
\* an invocation that ended on a missing cipher, on the wait for a connection
\* or before a connection object existed has emitted nothing.
C33_AtMostOneRequestPerCall ==
    [][/\ \A k \in DOMAIN rpc :
          /\ rpc[k].emitted
                => (/\ rpc'[k].emitted
                    /\ rpc'[k].pc \in {"sent", "resolved", "rejected"}
                    /\ ~(rpc[k].pc # "sent" /\ rpc'[k].pc = "sent"))
          /\ (~rpc[k].emitted /\ rpc'[k].emitted)
                => (rpc[k].pc = "encrypting" /\ rpc'[k].pc = "sent")
       /\ \A k \in DOMAIN rpc' :
             rpc'[k].err \in {ErrNoSessionEncryption, ErrNoMachineEncryption,
                              ErrTimeout, ErrNotInitialized, ErrTypeError}
                => ~rpc'[k].emitted]_vars

\* One call returned a result for its single request, another was refused
\* for its missing cipher and sent nothing.
C33_Witness ==
    /\ \E k \in DOMAIN rpc : rpc[k].pc = "resolved" /\ rpc[k].emitted
    /\ \E k \in DOMAIN rpc : /\ rpc[k].pc = "rejected" /\ ~rpc[k].emitted
                               /\ rpc[k].err = ErrNoSessionEncryption

\* C34: the stored record changes to a URL only in the step that ends a pass
\* won by that URL; getResolvedServerUrl() never writes it, so the primary-URL
\* fallback of a cold cache stays in memory; and every resetResolver() leaves
\* no record.
C34_StoredOnlyHoldsWinner ==
    [][LET ResetStep == /\ sinceReset' /\ lastOp' = NoOp
                        /\ pc' = pc /\ probes' = probes
       IN /\ stored' # stored =>
                IF stored' # null
                THEN \E c \in CallIds : /\ Finishing(c) /\ lastOp'.op = "pass"
                                         /\ lastOp'.ret = stored'
                                         /\ ProbeOk(c, stored')
                ELSE ResetStep
          /\ lastOp'.op = "getActive" => stored' = stored
          /\ ResetStep => stored' = null]_vars

\* The pass started by a cold-cache getResolvedServerUrl() is racing: the
\* fallback is the Active URL in memory and there is no stored record.
C34_Witness ==
    /\ activeUrl # null /\ stored = null
    /\ \E c \in CallIds : pc[c] = "racing"
    /\ \E c \in CallIds : pc[c] = "done"

\* C35: getResolvedServerUrl() on a cold cache puts the primary URL in
\* memory, returns it and starts exactly one resolveNow(); on a warm cache,
\* the fallback of an earlier call included, it returns the cached value,
\* changes nothing and starts no pass.  The cache does not turn cold again
\* while the background pass runs unless the settings are changed.
C35_ColdGetStartsOnePass ==
    [][/\ lastOp'.op = "getActive" =>
             IF activeUrl = null
             THEN /\ activeUrl' = primaryUrl /\ lastOp'.ret = primaryUrl
                  /\ lastOp'.flag
                  /\ nextCall' = nextCall + 1
                  /\ pc' = [pc EXCEPT ![nextCall] = "waiting"]
             ELSE /\ activeUrl' = activeUrl /\ lastOp'.ret = activeUrl
                  /\ ~lastOp'.flag
                  /\ nextCall' = nextCall /\ pc' = pc /\ probes' = probes
       /\ (activeUrl # null /\ activeUrl' = null)
             => (sinceReset' /\ lastOp' = NoOp /\ pc' = pc)]_vars

\* A second getResolvedServerUrl() has just returned the fallback while the
\* pass started by the first is racing, and no other call was started.
C35_Witness ==
    /\ lastOp.op = "getActive" /\ ~lastOp.flag
    /\ lastOp.ret = activeUrl /\ stored = null
    /\ nextCall = 2 /\ pc[1] = "racing"

\* C36: the reported Connection State agrees with the connection: it is
\* `connected` exactly when a connection object exists and is connected.
C36_StatusAgreesWithConnection ==
    (api.currentStatus = "connected") <=> (api.socket # 0 /\ api.connected)

\* C37: whenever a connection object exists, the endpoint and the token it
\* was created with are those of the current configuration.
C37_ConnectionUsesCurrentConfig ==
    api.socket # 0 => api.auth = api.config

\* C38: the function returned by onMessage(e, h) removes the registration
\* of h only: called when another handler has taken the place of h, it leaves
\* that handler registered.
C38_UnsubscribeRemovesOwnOnly ==
    [][\A e \in EventNames :
          (/\ sockOp'.op = "unsubscribe" /\ sockOp'.event = e
           /\ api.messageHandlers[e] # sockOp'.handler)
             => api'.messageHandlers[e] = api.messageHandlers[e]]_vars

\* C39: disconnect() leaves no connection object, no network subscription
\* and the state `disconnected`.  Without a connection object the state is
\* `disconnected` and nothing is connected, dialling or subscribed; a
\* connection object comes into being only by connect(), ensureConnected() or
\* initialize(), and the connectivity-regained signal changes nothing.
C39_DisconnectedUntilAsked ==
    [][/\ sockOp'.op = "disconnect"
             => (api'.socket = 0 /\ api'.currentStatus = "disconnected")
       /\ api'.socket = 0
             => (/\ api'.currentStatus = "disconnected"
                 /\ ~api'.networkSubscription
                 /\ ~api'.connected /\ ~api'.active)
       /\ (api.socket = 0 /\ api'.socket # 0)
             => sockOp'.op \in {"connectCall", "ensureConnected", "initialize"}
       /\ (api.socket = 0 /\ sockOp'.op = "networkRegained")
             => (api' = api /\ ~sockOp'.ret /\ notified' = << >>)]_vars

\* After a disconnect() of an initialized session the connectivity-regained
\* signal has just arrived and found nothing to do.
C39_Witness ==
    /\ sockOp.op = "networkRegained" /\ ~sockOp.ret
    /\ api.socket = 0 /\ api.config # NoConfig
    /\ api.currentStatus = "disconnected" /\ ~api.networkSubscription

====
